---- MODULE Spec2Model ----
(***************************************************************************)
(* quick_care_md_backend: the Django models (User, Doctor, Patient,        *)
(* Treatment), their overridden save/delete methods, the serializers'      *)
(* create methods and the DRF request handlers, as a state machine over    *)
(* the rows of the database.                                               *)
(*                                                                         *)
(* A Doctor row is keyed by the id of its User (Doctor.user is a           *)
(* OneToOneField, so there is at most one row per User).  A username is    *)
(* identified with the User's id.  Every handler is one action; the        *)
(* exception that escapes the handler is recorded in last.err.             *)
(* Authentication is configured outside main_app: a request arrives with   *)
(* request.user already set to an existing User, and the permission        *)
(* classes of permissions.py decide from there.                            *)
(***************************************************************************)
EXTENDS Integers, Sequences, FiniteSets, TLC

\* ---- bounds of the model
MaxUsers == 3
MaxPatients == 1
MaxTreatments == 3
MaxCount == 3
MaxDebt == 1
MaxDischarges == 2
MaxAccounts == 2

\* ---- program constants
\* Doctor.fire: incorrect_treatments >= 3
FireThreshold == 3
\* random.randint(1, 3): diseases (and so treatments) given to a new patient
MaxDiseasesPerPatient == 3
\* a null foreign key / self.pk of an unsaved instance
None == 0

\* gunicorn/runserver workers that handle requests at the same time
NumWorkers == 2
Workers == 1..NumWorkers

UserIds == 1..MaxUsers
PatientIds == 1..MaxPatients
TreatmentIds == 1..MaxTreatments
DischargeIds == 1..MaxDischarges
ROLE_CHOICES == {"admin", "doctor"}

\* TreatmentSerializer.create: valid_treatments
valid_treatments ==
  {"Insulin therapy", "Lifestyle changes", "ACE inhibitors", "Bypass surgery",
   "Chemotherapy", "Radiation therapy", "Surgery", "Dialysis", "Kidney transplant",
   "Inhalers", "Steroids", "Antiviral medications", "Rest and hydration"}

\* the eight canonical strings of PatientListCreateView.perform_create
CatalogStrings ==
  {"Insulin therapy, Lifestyle changes", "ACE inhibitors, Lifestyle changes",
   "Medication, Bypass surgery, Lifestyle changes",
   "Chemotherapy, Radiation therapy, Surgery", "Dialysis, Kidney transplant",
   "Inhalers, Steroids, Avoiding triggers",
   "Supportive care, Antiviral medications", "Antiviral drugs, Rest and hydration"}

\* treatment_options submitted by callers in this model
TreatmentInputs == {"Surgery", "Chemotherapy, Radiation therapy, Surgery", "Leeches"}

VARIABLES
  users,          \* id -> [role, is_active, is_staff]       (table User)
  doctors,        \* user id -> [incorrect_treatments]       (table Doctor)
  patients,       \* id -> [doctor]                          (table Patient)
  treatments,     \* id -> [doctor, patient, success]        (table Treatment)
  nextPatient,    \* Patient.id AutoField sequence
  nextTreatment,  \* Treatment.treatment_id AutoField sequence
  discharges,     \* id -> [patient, discharged]            (table Discharge)
  nextDischarge,  \* Discharge.discharge_id AutoField sequence
  reqs,           \* per worker, the request it is handling (SpecConc only)
  ledger,         \* per doctor, the sum of the deltas Treatment.save derived
                  \* in the split requests of SpecConc (history)
  last            \* the last request that succeeded or wrote: [op, err]

vars == <<users, doctors, patients, treatments, nextPatient, nextTreatment,
          discharges, nextDischarge, reqs, ledger, last>>

IdleRequest ==
  [pc |-> "idle", t |-> None,
   row |-> [doctor |-> None, patient |-> None, success |-> FALSE], mem |-> 0]

\* ---- the database as one value, so that methods compose
DB ==
  [users |-> users, doctors |-> doctors, patients |-> patients,
   treatments |-> treatments, np |-> nextPatient, nt |-> nextTreatment,
   discharges |-> discharges, nd |-> nextDischarge]

Ok(db) == [db |-> db, err |-> "none"]
Raise(db, e) == [db |-> db, err |-> e]

Without(f, S) == [x \in (DOMAIN f) \ S |-> f[x]]
Put(f, k, v) == [x \in (DOMAIN f) \cup {k} |-> IF x = k THEN v ELSE f[x]]

\* hasattr(user, 'doctor'): the reverse one-to-one accessor finds a row
hasattr_doctor(db, u) == u \in DOMAIN db.doctors

\* Doctor.objects.create(user=u): the OneToOneField is unique
Doctor_objects_create(db, u) ==
  IF hasattr_doctor(db, u)
  THEN Raise(db, "IntegrityError")
  ELSE Ok([db EXCEPT !.doctors = Put(db.doctors, u, [incorrect_treatments |-> 0])])

\* User.save
User_save(db, u, row) ==
  LET is_new_doctor == u \notin DOMAIN db.users /\ row.role = "doctor"
      db1 == [db EXCEPT !.users = Put(db.users, u, row)]
      r1 == IF row.role = "doctor" /\ ~hasattr_doctor(db1, u)
            THEN Doctor_objects_create(db1, u) ELSE Ok(db1)
  IN IF r1.err # "none" THEN r1
     ELSE IF row.role = "doctor" /\ ~is_new_doctor /\ ~hasattr_doctor(r1.db, u)
          THEN Doctor_objects_create(r1.db, u) ELSE r1

\* on_delete=CASCADE from a set of Doctor rows: their patients, every
\* treatment of those doctors or patients, and the discharges of those patients
CascadeDoctors(db, D) ==
  LET P == {p \in DOMAIN db.patients : db.patients[p].doctor \in D}
      T == {t \in DOMAIN db.treatments :
              db.treatments[t].doctor \in D \/ db.treatments[t].patient \in P}
      X == {x \in DOMAIN db.discharges : db.discharges[x].patient \in P}
  IN [db EXCEPT !.doctors = Without(db.doctors, D),
                !.patients = Without(db.patients, P),
                !.treatments = Without(db.treatments, T),
                !.discharges = Without(db.discharges, X)]

\* on_delete=CASCADE from a set of Patient rows
CascadePatients(db, P) ==
  LET T == {t \in DOMAIN db.treatments : db.treatments[t].patient \in P}
      X == {x \in DOMAIN db.discharges : db.discharges[x].patient \in P}
  IN [db EXCEPT !.patients = Without(db.patients, P),
                !.treatments = Without(db.treatments, T),
                !.discharges = Without(db.discharges, X)]

\* super(User, self).delete(): the collector follows Doctor.user CASCADE
\* without calling Doctor.delete
CascadeUsers(db, U) ==
  LET db1 == CascadeDoctors(db, U \cap DOMAIN db.doctors)
  IN [db1 EXCEPT !.users = Without(db1.users, U)]

\* User.delete
User_delete(db, u) ==
  IF db.users[u].role = "admin" /\ (DOMAIN db.doctors # {} \/ DOMAIN db.patients # {})
  THEN Raise(db, "ValidationError")
  ELSE Ok(CascadeUsers(db, {u}))

\* Doctor.delete
Doctor_delete(db, d) ==
  IF \E p \in DOMAIN db.patients : db.patients[p].doctor = d
  THEN Raise(db, "ValidationError")
  ELSE Ok(CascadeDoctors(db, {d}))

\* Doctor.fire assigning the comparison itself to is_active: a call below the
\* threshold sets the flag back to True
Doctor_fire_Recompute(db, d) ==
  User_save(db, d, [db.users[d] EXCEPT
                      !.is_active = db.doctors[d].incorrect_treatments < FireThreshold])

\* Doctor.fire
Doctor_fire(db, d) ==
  IF db.doctors[d].incorrect_treatments >= FireThreshold
  THEN User_save(db, d, [db.users[d] EXCEPT !.is_active = FALSE])
  ELSE Ok(db)

\* ---- permissions.py
Anonymous == None

\* IsDoctorUser.has_permission
IsDoctorUser(db, a) == a \in DOMAIN db.users /\ db.users[a].role = "doctor"

\* rest_framework.permissions.IsAdminUser as the views use it: is_staff
IsAdminUser(db, a) == a \in DOMAIN db.users /\ db.users[a].is_staff

\* rest_framework.permissions.IsAuthenticated (DiseaseListView)
IsAuthenticated(db, a) == a \in DOMAIN db.users

\* rest_framework.permissions.SAFE_METHODS, and the methods of this model
SAFE_METHODS == {"GET", "HEAD", "OPTIONS"}
Methods == SAFE_METHODS \cup {"POST", "PUT", "PATCH", "DELETE"}

\* IsAdminUserOrReadOnly.has_permission
IsAdminUserOrReadOnly(db, a, method) ==
  \/ method \in SAFE_METHODS
  \/ a \in DOMAIN db.users /\ (db.users[a].role = "admin" \/ db.users[a].role = "doctor")

\* IsAdminWithRole.has_permission
IsAdminWithRole(db, a) ==
  a \in DOMAIN db.users /\ db.users[a].is_staff /\ db.users[a].role = "admin"

\* the permission classes of permissions.py and the two of rest_framework that
\* the views name in permission_classes
PermissionClasses ==
  {"IsAdminUserOrReadOnly", "IsDoctorUser", "IsAdminWithRole", "IsAdminUser",
   "IsAuthenticated"}

\* cls().has_permission(request, view) for request.user = a, request.method = method
has_permission(db, cls, a, method) ==
  CASE cls = "IsAdminUserOrReadOnly" -> IsAdminUserOrReadOnly(db, a, method)
    [] cls = "IsDoctorUser" -> IsDoctorUser(db, a)
    [] cls = "IsAdminWithRole" -> IsAdminWithRole(db, a)
    [] cls = "IsAdminUser" -> IsAdminUser(db, a)
    [] cls = "IsAuthenticated" -> IsAuthenticated(db, a)

\* ---- backends.py

\* the passwords of this model, and the password argument left at None
Passwords == {"pw1", "pw2"}
NoPassword == "None"

\* django.contrib.auth.hashers: set_password stores the encoded password and
\* check_password encodes the raw one and compares
make_password(raw) == <<"pbkdf2_sha256", raw>>
check_password(raw, encoded) == make_password(raw) = encoded

\* CustomAuthBackend.authenticate: the user it returns, or None
CustomAuthBackend_authenticate(db, username, password) ==
  IF username = None \/ password = NoPassword THEN None
  ELSE IF username \notin DOMAIN db.users THEN None
  ELSE LET user == db.users[username]
       IN IF user.is_superuser \/ (user.is_active /\ check_password(password, user.password))
          THEN username
          ELSE None

\* ---- serializers.py

\* UserSerializer.is_valid: username is unique, role is one of the choices
UserSerializer_is_valid(db, u, role) == u \notin DOMAIN db.users /\ role \in ROLE_CHOICES

\* UserSerializer.create
UserSerializer_create(db, u, role) ==
  LET row == [role |-> role, is_active |-> TRUE, is_staff |-> role \in {"admin", "doctor"}]
      r1 == User_save(db, u, row)
  IN IF r1.err # "none" THEN r1
     ELSE IF role = "doctor" THEN Doctor_objects_create(r1.db, u) ELSE r1

\* DoctorSerializer.create, called with a dict of user data
DoctorSerializer_create(db, u, role) ==
  IF u \notin DOMAIN db.users
  THEN \* get_or_create creates the user (defaults: role 'doctor' overridden by
       \* the role in user_data), then set_password and a second save
       LET row == [role |-> role, is_active |-> TRUE, is_staff |-> FALSE]
           r1 == User_save(db, u, row)
           r2 == IF r1.err # "none" THEN r1 ELSE User_save(r1.db, u, row)
       IN IF r2.err # "none" THEN r2 ELSE Doctor_objects_create(r2.db, u)
  ELSE IF db.users[u].role # "doctor"
       THEN Raise(db, "ValidationError")
       ELSE Doctor_objects_create(db, u)

\* Doctor.save(): UPDATE of the row with the instance's in-memory counter
Doctor_save(db, d, mem) ==
  [db EXCEPT !.doctors = Put(db.doctors, d, [incorrect_treatments |-> mem])]

\* Treatment.save with the comparison against old_treatment left out: every
\* save of an existing treatment moves the counter
Treatment_delta_NoCompare(db, pk, success) ==
  IF success THEN (IF pk # None THEN 0 - 1 ELSE 0) ELSE 1

\* the change of the counter Treatment.save derives: pk = None is a creation
Treatment_delta(db, pk, success) ==
  IF pk # None
  THEN IF db.treatments[pk].success # success
       THEN (IF success THEN -1 ELSE 1)
       ELSE 0
  ELSE (IF ~success THEN 1 ELSE 0)

\* Treatment.save (@transaction.atomic).  mem is incorrect_treatments of the
\* in-memory instance self.doctor; the result carries the instance's new value.
Treatment_save(db, pk, row, mem) ==
  IF row.doctor = None
  THEN \* self.doctor is None: AttributeError, the atomic block rolls back
       [db |-> db, err |-> "AttributeError", mem |-> mem]
  ELSE LET mem1 == mem + Treatment_delta(db, pk, row.success)
           db1 == Doctor_save(db, row.doctor, mem1)
           id == IF pk # None THEN pk ELSE db1.nt
           db2 == [db1 EXCEPT !.treatments = Put(db1.treatments, id, row),
                              !.nt = IF pk # None THEN db1.nt ELSE db1.nt + 1]
       IN [db |-> db2, err |-> "none", mem |-> mem1]

\* TreatmentSerializer.create: validated_data['doctor'] is the instance that
\* Treatment.objects.create hands to Treatment.save
TreatmentSerializer_create(db, d, p, treatment_options) ==
  LET success == treatment_options \in valid_treatments
      r == Treatment_save(db, None, [doctor |-> d, patient |-> p, success |-> success],
                          db.doctors[d].incorrect_treatments)
  IN IF r.err # "none" THEN Raise(r.db, r.err)
     ELSE IF ~success THEN Ok(Doctor_save(r.db, d, r.mem + 1)) ELSE Ok(r.db)

\* ---- views.py

\* RegisterAdminView.post: the role is forced to 'admin'; an invalid
\* serializer is answered 400 without raising
RegisterAdminView_post(db, u) ==
  IF UserSerializer_is_valid(db, u, "admin")
  THEN UserSerializer_create(db, u, "admin")
  ELSE Raise(db, "ValidationError")

\* UserDetailView.perform_destroy: views.py never imports ValidationError, so
\* the except clause raises NameError when User.delete raises
UserDetailView_perform_destroy(db, u) ==
  IF u \notin DOMAIN db.users THEN Raise(db, "Http404")
  ELSE LET r == User_delete(db, u)
       IN IF r.err = "ValidationError" THEN Raise(r.db, "NameError") ELSE r

\* DoctorListCreateView.perform_create, after DoctorSerializer.is_valid
DoctorListCreateView_perform_create(db, u) ==
  IF u \in DOMAIN db.users /\ hasattr_doctor(db, u)
  THEN Raise(db, "ValidationError")
  ELSE IF ~UserSerializer_is_valid(db, u, "doctor")
       THEN Raise(db, "ValidationError")
       ELSE LET r == UserSerializer_create(db, u, "doctor")
            IN IF r.err # "none" THEN r
               ELSE \* serializer.save(user=user): DoctorSerializer.create pops
                    \* 'password' from a User instance
                    Raise(r.db, "AttributeError")

\* the loop of PatientListCreateView.perform_create: one Treatment.objects.create
\* per disease, all on the same in-memory doctor instance
RECURSIVE CreateTreatments(_, _, _, _, _)
CreateTreatments(db, d, p, outcomes, mem) ==
  IF outcomes = <<>> THEN Ok(db)
  ELSE LET r == Treatment_save(db, None,
                  [doctor |-> d, patient |-> p, success |-> Head(outcomes)], mem)
       IN IF r.err # "none" THEN Raise(r.db, r.err)
          ELSE CreateTreatments(r.db, d, p, Tail(outcomes), r.mem)

\* PatientListCreateView.perform_create; outcomes are the random.choice([True,
\* False]) results, one per assigned disease
PatientListCreateView_perform_create(db, a, outcomes) ==
  IF ~hasattr_doctor(db, a) THEN Raise(db, "RelatedObjectDoesNotExist")
  ELSE LET p == db.np
           db1 == [db EXCEPT !.patients = Put(db.patients, p, [doctor |-> a]),
                             !.np = db.np + 1]
       IN CreateTreatments(db1, a, p, outcomes, db.doctors[a].incorrect_treatments)

\* TreatmentListCreateView.perform_create, the second definition (the class
\* bound to the name at import): patient.disease is a many-to-many manager and
\* has no attribute 'treatments'
TreatmentListCreateView_perform_create(db, a, p, name) ==
  IF ~hasattr_doctor(db, a) THEN Raise(db, "RelatedObjectDoesNotExist")
  ELSE IF p \notin DOMAIN db.patients THEN Raise(db, "Http404")
  ELSE Raise(db, "AttributeError")

\* TreatmentListCreateView.perform_create, the first definition: a string is
\* never `in` a list of dicts, so every treatment_name takes the invalid branch;
\* doctor.is_active = False sets an attribute that is no column of Doctor
TreatmentListCreateView_perform_create_first(db, a, p, name) ==
  IF ~hasattr_doctor(db, a) THEN Raise(db, "RelatedObjectDoesNotExist")
  ELSE IF p \notin DOMAIN db.patients THEN Raise(db, "Http404")
  ELSE LET mem == db.doctors[a].incorrect_treatments + 1
           db1 == Doctor_save(db, a, mem)
       IN IF mem >= FireThreshold
          THEN Raise(Doctor_save(db1, a, mem), "ValidationError")
          ELSE Raise(db1, "ValidationError")

\* TreatmentDetailView PUT: UpdateModelMixin sets the validated fields on the
\* instance and calls Treatment.save; the doctor instance is read for this request
TreatmentDetailView_update(db, t, row) ==
  IF t \notin DOMAIN db.treatments THEN Raise(db, "Http404")
  ELSE LET r == Treatment_save(db, t, row,
                  IF row.doctor = None THEN 0
                  ELSE db.doctors[row.doctor].incorrect_treatments)
       IN Raise(r.db, r.err)

\* ---- the handlers behind their permission_classes

\* DoctorListCreateView.post: permission_classes = [IsAdminUser]
DoctorListCreateView_post(db, a, u) ==
  IF IsAdminUser(db, a) THEN DoctorListCreateView_perform_create(db, u)
  ELSE Raise(db, "PermissionDenied")

\* PatientListCreateView.post: permission_classes = [IsDoctorUser]
PatientListCreateView_post(db, a, outcomes) ==
  IF IsDoctorUser(db, a) THEN PatientListCreateView_perform_create(db, a, outcomes)
  ELSE Raise(db, "PermissionDenied")

\* TreatmentListCreateView.post (second definition): [IsDoctorUser]
TreatmentListCreateView_post(db, a, p, name) ==
  IF IsDoctorUser(db, a) THEN TreatmentListCreateView_perform_create(db, a, p, name)
  ELSE Raise(db, "PermissionDenied")

\* TreatmentListCreateView.post (first definition): [IsDoctorUser]
TreatmentListCreateView_post_first(db, a, p, name) ==
  IF IsDoctorUser(db, a) THEN TreatmentListCreateView_perform_create_first(db, a, p, name)
  ELSE Raise(db, "PermissionDenied")

\* TreatmentDetailView.put: [IsDoctorUser], no object-level check
TreatmentDetailView_put(db, a, t, row) ==
  IF IsDoctorUser(db, a) THEN TreatmentDetailView_update(db, t, row)
  ELSE Raise(db, "PermissionDenied")

\* TreatmentDetailView DELETE: DestroyModelMixin, Model.delete
TreatmentDetailView_destroy(db, t) ==
  IF t \notin DOMAIN db.treatments THEN Raise(db, "Http404")
  ELSE Ok([db EXCEPT !.treatments = Without(db.treatments, {t})])

\* TreatmentDetailView GET: queryset = Treatment.objects.all(), [IsDoctorUser];
\* data is the set of rows the response serializes
TreatmentDetailView_retrieve(db, a, t) ==
  IF ~IsDoctorUser(db, a) THEN [db |-> db, err |-> "PermissionDenied", data |-> {}]
  ELSE IF t \notin DOMAIN db.treatments THEN [db |-> db, err |-> "Http404", data |-> {}]
  ELSE [db |-> db, err |-> "none", data |-> {db.treatments[t]}]

\* TreatmentDetailView.delete: [IsDoctorUser], no object-level check
TreatmentDetailView_delete(db, a, t) ==
  IF IsDoctorUser(db, a) THEN TreatmentDetailView_destroy(db, t)
  ELSE Raise(db, "PermissionDenied")

\* PatientDetailView with the class attribute `queryset` in place of
\* get_queryset: every patient is in reach of every doctor
PatientDetailView_get_queryset_All(db, a) == DOMAIN db.patients

\* PatientDetailView.get_queryset: Patient.objects.filter(doctor=request.user.doctor)
PatientDetailView_get_queryset(db, a) ==
  {p \in DOMAIN db.patients : db.patients[p].doctor = a}

\* PatientDetailView.get_object behind [IsDoctorUser]: the exception it raises
PatientDetailView_get_object(db, a, p) ==
  IF ~IsDoctorUser(db, a) THEN "PermissionDenied"
  ELSE IF ~hasattr_doctor(db, a) THEN "RelatedObjectDoesNotExist"
  ELSE IF p \notin PatientDetailView_get_queryset(db, a) THEN "Http404"
  ELSE "none"

\* PatientDetailView GET
PatientDetailView_retrieve(db, a, p) ==
  LET e == PatientDetailView_get_object(db, a, p)
  IN [db |-> db, err |-> e, data |-> IF e = "none" THEN {db.patients[p]} ELSE {}]

\* PatientDetailView PUT: PatientSerializer.update sets instance.doctor to the
\* validated doctor (PrimaryKeyRelatedField over Doctor.objects.all()) and saves
PatientDetailView_update(db, a, p, d) ==
  LET e == PatientDetailView_get_object(db, a, p)
  IN IF e # "none" THEN Raise(db, e)
     ELSE IF d \notin DOMAIN db.doctors THEN Raise(db, "ValidationError")
     ELSE Ok([db EXCEPT !.patients = Put(db.patients, p, [doctor |-> d])])

\* PatientDetailView DELETE: Model.delete, the collector follows
\* Treatment.patient and Discharge.patient
PatientDetailView_destroy(db, a, p) ==
  LET e == PatientDetailView_get_object(db, a, p)
  IN IF e # "none" THEN Raise(db, e) ELSE Ok(CascadePatients(db, {p}))

\* Discharge.objects.create(patient=p, discharged=...): discharged defaults to
\* False, and nothing makes the patient unique among the rows
Discharge_objects_create(db, p, discharged) ==
  Ok([db EXCEPT !.discharges = Put(db.discharges, db.nd,
                                   [patient |-> p, discharged |-> discharged]),
                !.nd = db.nd + 1])

\* DischargePatientView.post: Discharge has no field 'doctor', so
\* Discharge.objects.create(patient=..., doctor=...) raises TypeError in
\* Model.__init__, before any row is written
DischargePatientView_post(db, a, p) ==
  IF ~IsDoctorUser(db, a) THEN Raise(db, "PermissionDenied")
  ELSE IF p \notin DOMAIN db.patients THEN Raise(db, "Http404")
  ELSE IF ~hasattr_doctor(db, a) THEN Raise(db, "RelatedObjectDoesNotExist")
  ELSE Raise(db, "TypeError")

\* purge_data Command.handle: QuerySet.delete() never calls Model.delete
Command_handle(db) ==
  LET db1 == CascadeDoctors(db, DOMAIN db.doctors)
      db2 == CascadePatients(db1, DOMAIN db1.patients)
  IN Ok(CascadeUsers(db2, DOMAIN db2.users))

Init ==
  /\ users = <<>>
  /\ doctors = <<>>
  /\ patients = <<>>
  /\ treatments = <<>>
  /\ nextPatient = 1
  /\ nextTreatment = 1
  /\ discharges = <<>>
  /\ nextDischarge = 1
  /\ reqs = [w \in Workers |-> IdleRequest]
  /\ ledger = [d \in UserIds |-> 0]
  /\ last = [op |-> "init", err |-> "none"]

Commit(db) ==
  /\ users' = db.users
  /\ doctors' = db.doctors
  /\ patients' = db.patients
  /\ treatments' = db.treatments
  /\ nextPatient' = db.np
  /\ nextTreatment' = db.nt
  /\ discharges' = db.discharges
  /\ nextDischarge' = db.nd

\* a request that raises and leaves every row as it was is a stuttering step
Step(op, r) ==
  /\ Commit(r.db)
  /\ last' = IF r.err # "none" /\ r.db = DB THEN last ELSE [op |-> op, err |-> r.err]

Done(op, r) ==
  /\ Step(op, r)
  /\ UNCHANGED <<reqs, ledger>>

\* a request on one object, recorded with its caller whatever the answer
Answered(op, a, pk, r) ==
  /\ Commit(r.db)
  /\ last' = [op |-> op, err |-> r.err, actor |-> a, pk |-> pk]
  /\ UNCHANGED <<reqs, ledger>>

\* ---- the requests, one action per handler

Actors == UserIds \cup {Anonymous}

\* the counters stay within the model's bound
InBounds(db) ==
  \A d \in DOMAIN db.doctors :
    /\ db.doctors[d].incorrect_treatments <= MaxCount
    /\ db.doctors[d].incorrect_treatments >= 0 - MaxDebt

\* the outcomes random.choice draws for the 1..3 diseases of a new patient
Outcomes == UNION {[1..n -> BOOLEAN] : n \in 1..MaxDiseasesPerPatient}

\* POST /users/register/
RegisterAdmin(u) ==
  /\ u \in UserIds
  /\ Done("RegisterAdmin", RegisterAdminView_post(DB, u))

\* POST /doctors/
DoctorListCreate(a, u) ==
  /\ u \in UserIds
  /\ Done("DoctorListCreate", DoctorListCreateView_post(DB, a, u))

\* DoctorSerializer(data=...).save()
DoctorSerializerCreate(u, role) ==
  /\ role \in ROLE_CHOICES
  /\ Done("DoctorSerializerCreate", DoctorSerializer_create(DB, u, role))

\* the admin site's change form of a User (admin.py, UserAdmin): User.save with
\* an edited role
UserSave(u, role) ==
  /\ u \in DOMAIN users
  /\ Done("UserSave", User_save(DB, u, [users[u] EXCEPT !.role = role]))

\* DELETE /users/<pk>/ (UserDetailView declares no permission_classes)
UserDestroy(u) ==
  /\ u \in UserIds
  /\ Done("UserDestroy", UserDetailView_perform_destroy(DB, u))

\* the admin site's delete view of a Doctor (admin.py, DoctorAdmin): Doctor.delete
DoctorDelete(d) ==
  /\ d \in DOMAIN doctors
  /\ Done("DoctorDelete", Doctor_delete(DB, d))

\* manage.py purge_data
Purge ==
  /\ DOMAIN users # {}
  /\ Done("Purge", Command_handle(DB))

\* POST /patients/
PatientCreate(a, outcomes) ==
  /\ nextPatient <= MaxPatients
  /\ nextTreatment + Len(outcomes) - 1 <= MaxTreatments
  /\ LET r == PatientListCreateView_post(DB, a, outcomes)
     IN InBounds(r.db) /\ Done("PatientCreate", r)

\* POST /treatments/
TreatmentCreate(a, p, name) ==
  /\ name \in TreatmentInputs
  /\ Done("TreatmentCreate", TreatmentListCreateView_post(DB, a, p, name))

\* POST /treatments/ as the first definition of the view handles it
TreatmentCreateFirst(a, p, name) ==
  /\ name \in TreatmentInputs
  /\ LET r == TreatmentListCreateView_post_first(DB, a, p, name)
     IN InBounds(r.db) /\ Done("TreatmentCreateFirst", r)

\* TreatmentSerializer(data=...).save(doctor=d, patient=p)
TreatmentSerializerCreate(d, p, treatment_options) ==
  /\ d \in DOMAIN doctors
  /\ p \in DOMAIN patients
  /\ nextTreatment <= MaxTreatments
  /\ LET r == TreatmentSerializer_create(DB, d, p, treatment_options)
     IN InBounds(r.db) /\ Done("TreatmentSerializerCreate", r)

\* PUT /treatments/<pk>/: the serializer accepts any existing doctor, or null;
\* the requests of this model leave the treatment's patient as it is
TreatmentUpdate(a, t, d, success) ==
  /\ d \in DOMAIN doctors \cup {None}
  /\ LET p == IF t \in DOMAIN treatments THEN treatments[t].patient ELSE None
         r == TreatmentDetailView_put(DB, a, t,
                [doctor |-> d, patient |-> p, success |-> success])
     IN InBounds(r.db) /\ Done("TreatmentUpdate", r)

\* DELETE /treatments/<pk>/
TreatmentDestroy(a, t) ==
  /\ t \in TreatmentIds
  /\ Done("TreatmentDestroy", TreatmentDetailView_delete(DB, a, t))

\* GET /treatments/<pk>/
TreatmentRetrieve(a, t) ==
  /\ t \in TreatmentIds
  /\ Done("TreatmentRetrieve", TreatmentDetailView_retrieve(DB, a, t))

\* GET /patients/<pk>/
PatientRetrieve(a, p) ==
  /\ p \in PatientIds
  /\ Answered("PatientRetrieve", a, p, PatientDetailView_retrieve(DB, a, p))

\* PUT /patients/<pk>/ naming doctor d
PatientUpdate(a, p, d) ==
  /\ p \in PatientIds
  /\ Answered("PatientUpdate", a, p, PatientDetailView_update(DB, a, p, d))

\* DELETE /patients/<pk>/
PatientDestroy(a, p) ==
  /\ p \in PatientIds
  /\ Answered("PatientDestroy", a, p, PatientDetailView_destroy(DB, a, p))

\* POST /patients/<patient_id>/discharge/
Discharge(a, p) ==
  /\ p \in PatientIds
  /\ Answered("Discharge", a, p, DischargePatientView_post(DB, a, p))

\* the admin site's add form of a Discharge (admin.py, DischargeAdmin)
DischargeAdminAdd(p, discharged) ==
  /\ p \in DOMAIN patients
  /\ nextDischarge <= MaxDischarges
  /\ Done("DischargeAdminAdd", Discharge_objects_create(DB, p, discharged))

\* POST /doctors/<doctor_id>/fire/
Fire(d) ==
  /\ d \in UserIds
  /\ Done("Fire", IF d \in DOMAIN doctors THEN Doctor_fire(DB, d) ELSE Raise(DB, "Http404"))

\* usernames the requests of the treatment specification register
AdminNames == {1}
DoctorNames == UserIds \ AdminNames

\* the treatment handlers, with the requests that create their doctors
NextTreatments ==
  \/ \E u \in AdminNames : RegisterAdmin(u)
  \/ \E a \in Actors, u \in DoctorNames : DoctorListCreate(a, u)
  \/ \E a \in Actors, outcomes \in Outcomes : PatientCreate(a, outcomes)
  \/ \E a \in Actors, p \in PatientIds \cup {None}, name \in TreatmentInputs :
       TreatmentCreate(a, p, name)
  \/ \E a \in Actors, p \in PatientIds \cup {None}, name \in TreatmentInputs :
       TreatmentCreateFirst(a, p, name)
  \/ \E d \in UserIds, p \in PatientIds, o \in TreatmentInputs :
       TreatmentSerializerCreate(d, p, o)
  \/ \E a \in Actors, t \in TreatmentIds, d \in UserIds \cup {None}, success \in BOOLEAN :
       TreatmentUpdate(a, t, d, success)
  \/ \E d \in UserIds : Fire(d)

SpecTreatments == Init /\ [][NextTreatments]_vars

\* the creation and deletion of users, doctors and patients
NextAccounts ==
  \/ \E u \in UserIds : RegisterAdmin(u)
  \/ \E a \in Actors, u \in UserIds : DoctorListCreate(a, u)
  \/ \E u \in UserIds, role \in ROLE_CHOICES : DoctorSerializerCreate(u, role)
  \/ \E u \in UserIds, role \in ROLE_CHOICES : UserSave(u, role)
  \/ \E u \in UserIds : UserDestroy(u)
  \/ \E d \in UserIds : DoctorDelete(d)
  \/ Purge
  \/ \E a \in Actors, outcomes \in Outcomes : PatientCreate(a, outcomes)

SpecAccounts == Init /\ [][NextAccounts]_vars

\* the requests that only create users and doctors, or save a user
NextCreation ==
  \/ \E u \in UserIds : RegisterAdmin(u)
  \/ \E a \in Actors, u \in UserIds : DoctorListCreate(a, u)
  \/ \E u \in UserIds, role \in ROLE_CHOICES : DoctorSerializerCreate(u, role)
  \/ \E u \in UserIds, role \in ROLE_CHOICES : UserSave(u, role)

SpecCreation == Init /\ [][NextCreation]_vars

\* the requests on one Patient, with the requests that create doctors and
\* patients
NextPatients ==
  \/ \E u \in AdminNames : RegisterAdmin(u)
  \/ \E a \in Actors, u \in DoctorNames : DoctorListCreate(a, u)
  \/ \E a \in Actors, outcomes \in Outcomes : PatientCreate(a, outcomes)
  \/ \E a \in Actors, p \in PatientIds : PatientRetrieve(a, p)
  \/ \E a \in Actors, p \in PatientIds, d \in UserIds : PatientUpdate(a, p, d)
  \/ \E a \in Actors, p \in PatientIds : PatientDestroy(a, p)
  \/ \E a \in Actors, p \in PatientIds : Discharge(a, p)
  \/ \E p \in PatientIds, discharged \in BOOLEAN : DischargeAdminAdd(p, discharged)

SpecPatients == Init /\ [][NextPatients]_vars

\* the requests on one Treatment, with the requests that create doctors,
\* patients and their treatments
NextTreatmentDetail ==
  \/ \E u \in AdminNames : RegisterAdmin(u)
  \/ \E a \in Actors, u \in DoctorNames : DoctorListCreate(a, u)
  \/ \E a \in Actors, outcomes \in Outcomes : PatientCreate(a, outcomes)
  \/ \E a \in Actors, t \in TreatmentIds : TreatmentRetrieve(a, t)
  \/ \E a \in Actors, t \in TreatmentIds, d \in UserIds \cup {None}, success \in BOOLEAN :
       TreatmentUpdate(a, t, d, success)
  \/ \E a \in Actors, t \in TreatmentIds : TreatmentDestroy(a, t)

SpecTreatmentDetail == Init /\ [][NextTreatmentDetail]_vars

\* ---- permission checks and logins over a table of accounts.  The rows carry
\* the AbstractUser columns that authenticate reads (is_superuser, password)
\* beside the three the other specifications use.
UserRows ==
  [role : ROLE_CHOICES, is_active : BOOLEAN, is_staff : BOOLEAN,
   is_superuser : BOOLEAN, password : {make_password(pw) : pw \in Passwords}]

InitAccess ==
  /\ \E n \in 0..MaxAccounts : users \in [1..n -> UserRows]
  /\ doctors = [u \in {x \in DOMAIN users : users[x].role = "doctor"} |->
                 [incorrect_treatments |-> 0]]
  /\ patients = <<>>
  /\ treatments = <<>>
  /\ nextPatient = 1
  /\ nextTreatment = 1
  /\ discharges = <<>>
  /\ nextDischarge = 1
  /\ reqs = [w \in Workers |-> IdleRequest]
  /\ ledger = [d \in UserIds |-> 0]
  /\ last = [op |-> "init", err |-> "none"]

\* a view's check_permissions for one of the classes
HasPermission(cls, a, method) ==
  /\ cls \in PermissionClasses
  /\ last' = [op |-> "has_permission", cls |-> cls, actor |-> a, method |-> method,
              err |-> IF has_permission(DB, cls, a, method) THEN "none"
                      ELSE "PermissionDenied"]
  /\ UNCHANGED <<users, doctors, patients, treatments, nextPatient, nextTreatment,
                 discharges, nextDischarge, reqs, ledger>>

\* django.contrib.auth.authenticate reaching CustomAuthBackend
Authenticate(username, password) ==
  /\ password \in Passwords \cup {NoPassword}
  /\ last' = [op |-> "authenticate", username |-> username, password |-> password,
              user |-> CustomAuthBackend_authenticate(DB, username, password),
              err |-> "none"]
  /\ UNCHANGED <<users, doctors, patients, treatments, nextPatient, nextTreatment,
                 discharges, nextDischarge, reqs, ledger>>

NextAccess ==
  \/ \E cls \in PermissionClasses, a \in Actors, method \in Methods :
       HasPermission(cls, a, method)
  \/ \E username \in Actors, password \in Passwords \cup {NoPassword} :
       Authenticate(username, password)

SpecAccess == InitAccess /\ [][NextAccess]_vars

\* ---- two workers handling treatment writes at the same time.  A PUT reads
\* the Doctor row while the serializer validates (no select_for_update), and
\* Treatment.save later writes the instance it was given inside its atomic block.

\* the number of failed outcomes in a new patient's treatments
Failed(outcomes) == Cardinality({i \in DOMAIN outcomes : ~outcomes[i]})

\* POST /patients/, handled without interleaving
ConcPatientCreate(a, outcomes) ==
  /\ nextPatient <= MaxPatients
  /\ nextTreatment + Len(outcomes) - 1 <= MaxTreatments
  /\ LET r == PatientListCreateView_post(DB, a, outcomes)
     IN /\ InBounds(r.db)
        /\ Step("PatientCreate", r)
        /\ ledger' = IF r.err = "none"
                     THEN [ledger EXCEPT ![a] = @ + Failed(outcomes)] ELSE ledger
  /\ UNCHANGED reqs

\* PUT /treatments/<pk>/, first half: get_object and serializer.is_valid,
\* which loads the Doctor instance.  Each worker handles one PUT in this
\* specification, and the PUT keeps the treatment's doctor.
UpdateBegin(w, a, t, success) ==
  /\ reqs[w].pc = "idle"
  /\ IsDoctorUser(DB, a)
  /\ t \in DOMAIN treatments
  /\ LET d == treatments[t].doctor IN reqs' = [reqs EXCEPT ![w] =
       [pc |-> "loaded", t |-> t,
        row |-> [doctor |-> d, patient |-> treatments[t].patient, success |-> success],
        mem |-> doctors[d].incorrect_treatments]]
  /\ UNCHANGED <<users, doctors, patients, treatments, nextPatient, nextTreatment,
                 discharges, nextDischarge, ledger, last>>

\* PUT /treatments/<pk>/, second half: serializer.save() -> Treatment.save
UpdateSave(w) ==
  /\ reqs[w].pc = "loaded"
  /\ LET q == reqs[w]
         r == Treatment_save(DB, q.t, q.row, q.mem)
     IN /\ InBounds(r.db)
        /\ Step("TreatmentUpdate", Raise(r.db, r.err))
        /\ ledger' = [ledger EXCEPT ![q.row.doctor] =
                        @ + Treatment_delta(DB, q.t, q.row.success)]
  /\ reqs' = [reqs EXCEPT ![w] = [IdleRequest EXCEPT !.pc = "done"]]

NextConc ==
  \/ \E u \in AdminNames : RegisterAdmin(u)
  \/ \E a \in Actors, u \in DoctorNames : DoctorListCreate(a, u)
  \/ \E a \in Actors, outcomes \in Outcomes : ConcPatientCreate(a, outcomes)
  \/ \E w \in Workers, a \in Actors, t \in TreatmentIds, success \in BOOLEAN :
       UpdateBegin(w, a, t, success)
  \/ \E w \in Workers : UpdateSave(w)

SpecConc == Init /\ [][NextConc]_vars

\* ======================= the claims =======================

count(d) == doctors[d].incorrect_treatments

\* the requests that complete a treatment write
TreatmentWrites == {"PatientCreate", "TreatmentSerializerCreate", "TreatmentUpdate"}

\* C1: in every reachable state every Doctor's incorrect-treatment counter is
\* at least 0, whatever treatments were created and edited.
C1_CounterNonNegative ==
  \A d \in DOMAIN doctors : count(d) >= 0

\* C2: after every completed treatment write, a doctor whose counter is 3 or
\* more has a deactivated User account (so three failed treatments recorded for
\* a clean, active doctor deactivate the account).
C2_ThresholdDeactivates ==
  (last.op \in TreatmentWrites /\ last.err = "none")
    => \A d \in DOMAIN doctors : count(d) >= FireThreshold => ~users[d].is_active

\* C3: a treatment creation attempted by a doctor whose User account is
\* deactivated is answered with a permission error (403) and persists no
\* Treatment.
C3_DeactivatedDoctorDenied ==
  \A a \in DOMAIN users :
    (users[a].role = "doctor" /\ ~users[a].is_active) =>
      \A p \in PatientIds \cup {None}, name \in TreatmentInputs :
        LET r == TreatmentListCreateView_post(DB, a, p, name)
        IN r.err = "PermissionDenied" /\ r.db.treatments = treatments

\* the delta the transition old success -> new success calls for
EditDelta(old, new) == IF old = new THEN 0 ELSE IF new THEN 0 - 1 ELSE 1

\* the treatments an accepted step rewrote
Rewritten ==
  {t \in DOMAIN treatments \cap DOMAIN treatments' : treatments'[t] # treatments[t]}

\* C4: an accepted edit of a Treatment changes the counter of the treatment's
\* doctor by the delta of the transition old success -> new success (false->true
\* -1, true->false +1, no change 0, also when the same edit is repeated), and
\* changes no other counter.
C4_EditDelta ==
  [][(last'.op = "TreatmentUpdate" /\ last'.err = "none") =>
       /\ DOMAIN treatments' = DOMAIN treatments
       /\ DOMAIN doctors' = DOMAIN doctors
       /\ Cardinality(Rewritten) <= 1
       /\ \A d \in DOMAIN doctors :
            doctors'[d].incorrect_treatments - doctors[d].incorrect_treatments =
              IF \E t \in Rewritten : treatments'[t].doctor = d
              THEN LET t == CHOOSE x \in Rewritten : TRUE
                   IN EditDelta(treatments[t].success, treatments'[t].success)
              ELSE 0]_vars

\* C4 witness: an edit was accepted and left a treatment marked successful whose
\* doctor's counter is back at 0, with one treatment ever created.
C4_Witness ==
  /\ last = [op |-> "TreatmentUpdate", err |-> "none"]
  /\ nextTreatment = 2
  /\ \E t \in DOMAIN treatments :
       treatments[t].success /\ count(treatments[t].doctor) = 0

\* C5: a step that records exactly one new treatment, with success false,
\* raises the counter of that treatment's doctor by exactly 1.
C5_FailedCreateAddsOne ==
  [][(/\ nextTreatment' = nextTreatment + 1
      /\ nextTreatment \in DOMAIN treatments'
      /\ ~treatments'[nextTreatment].success
      /\ treatments'[nextTreatment].doctor \in DOMAIN doctors)
       => doctors'[treatments'[nextTreatment].doctor].incorrect_treatments =
            doctors[treatments'[nextTreatment].doctor].incorrect_treatments + 1]_vars

\* a step that persisted a Treatment row (new or rewritten)
TreatmentWritten ==
  \E t \in DOMAIN treatments' : t \notin DOMAIN treatments \/ treatments'[t] # treatments[t]

C7_NoLostUpdate ==
  (\A w \in Workers : reqs[w].pc # "loaded")
    => \A d \in DOMAIN doctors : count(d) = ledger[d]

\* C8: deleting an admin User fails with the conflict error and changes nothing
\* while any Doctor or Patient exists; once none exists it succeeds and removes
\* the User.
C8_AdminDeleteConflict ==
  \A u \in DOMAIN users :
    users[u].role = "admin" =>
      LET r == UserDetailView_perform_destroy(DB, u)
      IN IF DOMAIN doctors # {} \/ DOMAIN patients # {}
         THEN r.err = "ValidationError" /\ r.db = DB
         ELSE r.err = "none" /\ u \notin DOMAIN r.db.users

\* C9: no step removes a Doctor that has a Patient assigned to it.
C9_DoctorWithPatientsKept ==
  [][\A d \in DOMAIN doctors :
       (\E p \in DOMAIN patients : patients[p].doctor = d) => d \in DOMAIN doctors']_vars

\* C10: after registrations, doctor creations and user saves every User with
\* role doctor has its Doctor record, and no creation path ran into a second
\* Doctor for a User that already has one.
C10_OneDoctorPerUser ==
  /\ \A u \in DOMAIN users : users[u].role = "doctor" => u \in DOMAIN doctors
  /\ last.err # "IntegrityError"

\* the Discharge rows of patient p
DischargesOf(db, p) == {x \in DOMAIN db.discharges : db.discharges[x].patient = p}

\* C11: a patient has at most one Discharge; a doctor's discharge request for a
\* patient without one succeeds and adds a Discharge with discharged = TRUE, and
\* a request for a patient that has one fails with the conflict error and adds
\* none.
C11_DischargeOnce ==
  /\ \A p \in DOMAIN patients : Cardinality(DischargesOf(DB, p)) <= 1
  /\ \A a \in DOMAIN doctors, p \in DOMAIN patients :
       users[a].role = "doctor" =>
         LET r == DischargePatientView_post(DB, a, p)
         IN IF DischargesOf(DB, p) = {}
            THEN /\ r.err = "none"
                 /\ \E x \in DischargesOf(r.db, p) : r.db.discharges[x].discharged
            ELSE r.err = "ConflictError" /\ r.db.discharges = discharges

\* the answers that deny a request: 403 and 404
Denied == {"PermissionDenied", "Http404"}

\* C12: a retrieve, update or delete of a Patient by id, requested by a doctor
\* who is not the patient's doctor, is denied (403/404), returns none of the
\* patient's data and leaves every row unchanged.
C12_PatientOwnership ==
  \A a \in DOMAIN doctors, p \in DOMAIN patients :
    patients[p].doctor # a =>
      /\ LET r == PatientDetailView_retrieve(DB, a, p)
         IN r.err \in Denied /\ r.data = {}
      /\ \A d \in UserIds :
           LET r == PatientDetailView_update(DB, a, p, d)
           IN r.err \in Denied /\ r.db = DB
      /\ LET r == PatientDetailView_destroy(DB, a, p)
         IN r.err \in Denied /\ r.db = DB

\* C12 witness: the last request was a doctor's, on a patient that exists and
\* belongs to another doctor, and it was denied.
C12_Witness ==
  /\ last.op \in {"PatientRetrieve", "PatientUpdate", "PatientDestroy"}
  /\ last.actor \in DOMAIN doctors
  /\ users[last.actor].role = "doctor"
  /\ last.pk \in DOMAIN patients
  /\ patients[last.pk].doctor # last.actor
  /\ last.err = "Http404"

\* C13: a retrieve, update or delete of a Treatment requested by a doctor who
\* is not the treatment's doctor is denied and changes no row, so no doctor
\* changes another doctor's Treatment or counter.
C13_TreatmentOwnership ==
  \A a \in DOMAIN doctors, t \in DOMAIN treatments :
    treatments[t].doctor # a =>
      /\ TreatmentDetailView_retrieve(DB, a, t).err \in Denied
      /\ \A success \in BOOLEAN :
           LET r == TreatmentDetailView_put(DB, a, t, [treatments[t] EXCEPT !.success = success])
           IN r.err \in Denied /\ r.db = DB
      /\ LET r == TreatmentDetailView_delete(DB, a, t)
         IN r.err \in Denied /\ r.db = DB

\* C14: no permission class that guards an endpoint grants a request of an
\* unauthenticated caller, whatever its method (safe methods included).
C14_AnonymousDenied ==
  (last.op = "has_permission" /\ last.actor = Anonymous) => last.err = "PermissionDenied"

\* C17: authenticate returns a user only when it is the user named, that
\* user's account is active and the password supplied matches the user's
\* password; superusers are no exception.
C17_AuthenticateChecksPassword ==
  (last.op = "authenticate" /\ last.user # None) =>
    /\ last.user = last.username
    /\ users[last.user].is_active
    /\ check_password(last.password, users[last.user].password)

\* C15: under treatment creations, treatment edits and fire calls, a User that
\* is deactivated stays deactivated, and neither a deactivated User nor a User
\* a fire call acts on loses its row or its Doctor row.
C15_DeactivationTerminal ==
  [][\A u \in DOMAIN users :
       (~users[u].is_active \/ last'.op = "Fire") =>
         /\ u \in DOMAIN users'
         /\ u \in DOMAIN doctors => u \in DOMAIN doctors'
         /\ ~users[u].is_active => ~users'[u].is_active]_vars

\* C15 witness: a doctor was deactivated, and an edit accepted afterwards has
\* brought the counter back under the threshold.
C15_Witness ==
  /\ last.op = "TreatmentUpdate"
  /\ last.err = "none"
  /\ \E d \in DOMAIN doctors : ~users[d].is_active /\ count(d) < FireThreshold

\* a creation answered without error that persisted the new Treatment with
\* success = TRUE and left every counter as it was
AcceptedUnchanged(r) ==
  /\ r.err = "none"
  /\ nextTreatment \in DOMAIN r.db.treatments
  /\ r.db.treatments[nextTreatment].success
  /\ r.db.doctors = doctors

\* C16: one of the eight canonical treatment strings, submitted by a doctor for
\* an existing patient, is accepted by a treatment-creation path that validates
\* treatment_options: the Treatment is persisted with success = TRUE and the
\* doctor's counter is unchanged.
C16_CatalogStringAccepted ==
  \A a \in DOMAIN doctors, p \in DOMAIN patients, name \in CatalogStrings :
    users[a].role = "doctor" =>
      \/ AcceptedUnchanged(TreatmentListCreateView_post_first(DB, a, p, name))
      \/ AcceptedUnchanged(TreatmentListCreateView_post(DB, a, p, name))
      \/ AcceptedUnchanged(TreatmentSerializer_create(DB, a, p, name))

====
